---- MODULE Spec2Model ----
(***************************************************************************)
(* Model of the Doubao API client (src/doubao_api.cpp): pre-flight         *)
(* validation, payload building, the chunked HTTP transport                *)
(* (sendHttpRequest) and the bounded retry wrapper                         *)
(* (sendHttpRequestWithRetry).                                             *)
(*                                                                         *)
(* Arduino Strings are TLA+ strings; a const char* is <<>> (nullptr) or    *)
(* <<s>> (a pointer to the C string s).  The program is single-threaded:   *)
(* pc is the position of its one thread.  The peer of the TLS socket is    *)
(* the only other agent (PeerSend, PeerClose).                             *)
(***************************************************************************)
EXTENDS Integers, Sequences, FiniteSets, TLC

VARIABLES
  pc,          \* position of the thread of control
  callee,      \* the API function the caller invoked
  args,        \* its arguments
  answer,      \* global String answer (doubao_api.cpp:13)
  payload,     \* parameter payload of sendHttpRequest(WithRetry)
  apiKey,      \* parameter apiKey
  maxRetries,  \* parameter maxRetries of sendHttpRequestWithRetry
  i,           \* loop index of sendHttpRequestWithRetry
  result,      \* local result of sendHttpRequestWithRetry
  sent,        \* local sent of sendHttpRequest
  wire,        \* the arguments of the client.print calls of this attempt, in order
  sockets,     \* number of open sockets
  peerOpen,    \* the peer has not closed the connection
  toSend,      \* bytes the peer has still to send
  avail,       \* bytes received by the socket and not yet read
  response,    \* local response of sendHttpRequest
  received,    \* the bytes the read loop accumulated (response before line 73)
  waited,      \* milliseconds elapsed since line 62 (capped at the deadline)
  outputText,  \* local outputText of sendHttpRequest
  kind,        \* the branch of sendHttpRequest that produced outputText
  parsed,      \* <<s>> when deserializeJson was called on s in this attempt, else <<>>
  attempts,    \* invocations of sendHttpRequest in this call
  opened,      \* sockets opened (successful connects) in this call
  slept,       \* the arguments of the delay calls of the retry loop, in order
  captures,    \* invocations of K10tobase64 in this call
  firstSuccess,\* number of the first attempt of this call that parsed a response, 0 if none
  retval       \* <<v>> once the call returned v, else <<>>

vars == <<pc, callee, args, answer, payload, apiKey, maxRetries, i, result, sent,
          wire, sockets, peerOpen, toSend, avail, response, received, waited,
          outputText, kind, parsed, attempts, opened, slept, captures, firstSuccess,
          retval>>

(***************************************************************************)
(* Bounds of the model.                                                    *)
(***************************************************************************)
MaxRetriesBound == 3   \* maxRetries ranges over -1 .. MaxRetriesBound
MaxChunks == 2         \* payload lengths reach MaxChunks * chunkSize + 1

(***************************************************************************)
(* Program constants.                                                      *)
(***************************************************************************)
ERROR_NETWORK == "<network_error>"
ERROR_CAMERA == "<camera_error>"
ERROR_IMAGE_TOO_LARGE == "<image_too_large>"
ERROR_INVALID_INPUT == "<invalid_input>"
ERROR_JSON_PARSE == "<json_parse_error>"
ERROR_TIMEOUT == "<timeout_error>"

chunkSize == 4096
ReadDeadlineMs == 300000
baseDelay == 1000
DefaultMaxRetries == 3

CRLF == "\r\n"
CRLFCRLF == "\r\n\r\n"

Min(a, b) == IF a < b THEN a ELSE b

(***************************************************************************)
(* Arduino String helpers.                                                 *)
(***************************************************************************)
\* s[k] for a 0-based k
CharAt(s, k) == SubSeq(s, k + 1, k + 1)

\* String::substring(left, right)
Substring(s, left, right) ==
  LET l == IF left > right THEN right ELSE left
      r0 == IF left > right THEN left ELSE right
      r == IF r0 > Len(s) THEN Len(s) ELSE r0
  IN IF l >= Len(s) THEN "" ELSE SubSeq(s, l + 1, r)

\* String::substring(left): to the end of the string
SubstringFrom(s, left) == Substring(s, left, Len(s))

\* String::indexOf(pat): 0-based index of the first occurrence, -1 when there is none
IndexOf(s, pat) ==
  LET hits == {k \in 0..(Len(s) - Len(pat)) : SubSeq(s, k + 1, k + Len(pat)) = pat}
  IN IF hits = {} THEN -1 ELSE CHOOSE k \in hits : \A j \in hits : k <= j

HexDigits == <<"0", "1", "2", "3", "4", "5", "6", "7", "8", "9", "a", "b", "c", "d", "e", "f">>

\* String(n, HEX) for n >= 0
RECURSIVE Hex(_)
Hex(n) == IF n < 16 THEN HexDigits[n + 1]
          ELSE Hex(n \div 16) \o HexDigits[(n % 16) + 1]

\* String(const char*): a null pointer gives the empty String
StringOf(p) == IF p = <<>> THEN "" ELSE p[1]

\* strlen
Strlen(p) == Len(p[1])

(***************************************************************************)
(* A float is [nan, tenths]: NaN, or the value tenths / 10.                *)
(***************************************************************************)
Float(t) == [nan |-> FALSE, tenths |-> t]
NaN == [nan |-> TRUE, tenths |-> 0]

\* a < b and a > b on floats: every comparison with NaN is false
FloatLess(a, b) == ~a.nan /\ ~b.nan /\ a.tenths < b.tenths
FloatGreater(a, b) == ~a.nan /\ ~b.nan /\ a.tenths > b.tenths

Abs(n) == IF n < 0 THEN 0 - n ELSE n

\* String(float): two decimal places
FloatStr(t) ==
  IF t.nan THEN "nan"
  ELSE (IF t.tenths < 0 THEN "-" ELSE "") \o Hex(Abs(t.tenths) \div 10)
       \o "." \o Hex(Abs(t.tenths) % 10) \o "0"

(***************************************************************************)
(* validateConfig (doubao_api.cpp:15-29)                                   *)
(***************************************************************************)
TempOutOfRange(temp) == FloatLess(temp, Float(0)) \/ FloatGreater(temp, Float(10))

validateConfig(key, modelId, temp) ==
  IF key = <<>> \/ Strlen(key) = 0 THEN FALSE
  ELSE IF Len(modelId) = 0 THEN FALSE
  ELSE IF TempOutOfRange(temp) THEN FALSE
  ELSE TRUE

(***************************************************************************)
(* buildPayload (doubao_api.cpp:109-130)                                   *)
(***************************************************************************)
HasImage(base64Image) == base64Image # "" /\ base64Image # "NULL"

buildPayload(inputText, modelId, systemPrompt, temp, base64Image, imageFormat) ==
  "{"
  \o "\"model\":\"" \o modelId \o "\","
  \o "\"messages\":["
  \o "{\"role\":\"system\",\"content\":\"" \o systemPrompt \o "\"},"
  \o "{"
  \o "\"role\":\"user\","
  \o "\"content\":["
  \o (IF HasImage(base64Image)
      THEN "{\"type\":\"image_url\","
           \o "\"image_url\":{\"url\":\"data:image/" \o imageFormat \o ";base64,"
           \o base64Image \o "\"}},"
      ELSE "")
  \o "{\"type\":\"text\",\"text\":\"" \o inputText \o "\"}"
  \o "]"
  \o "}"
  \o "],"
  \o "\"temperature\":" \o FloatStr(temp)
  \o "}"

(***************************************************************************)
(* The payload of getGPTAnswer_urlimg (doubao_api.cpp:150-166)             *)
(***************************************************************************)
urlimgPayload(inputText, imageUrl, modelId, systemPrompt, temp) ==
  "{"
  \o "\"model\":\"" \o modelId \o "\","
  \o "\"messages\":["
  \o "{\"role\":\"system\",\"content\":\"" \o systemPrompt \o "\"},"
  \o (IF imageUrl # ""
      THEN "{\"role\":\"user\",\"content\":["
           \o "{\"type\":\"image_url\",\"image_url\":{\"url\":\"" \o imageUrl \o "\"}},"
           \o "{\"type\":\"text\",\"text\":\"" \o inputText \o "\"}"
           \o "]}"
      ELSE "{\"role\":\"user\",\"content\":\"" \o inputText \o "\"}")
  \o "],"
  \o "\"temperature\":" \o FloatStr(temp)
  \o "}"

(***************************************************************************)
(* The request head of sendHttpRequest (doubao_api.cpp:39-45)              *)
(***************************************************************************)
RequestHead(key) ==
  "POST /api/v3/chat/completions HTTP/1.1\r\n"
  \o "Host: ark.cn-beijing.volces.com\r\n"
  \o "Content-Type: application/json\r\n"
  \o "Authorization: Bearer " \o StringOf(key) \o "\r\n"
  \o "Transfer-Encoding: chunked\r\n"
  \o "Connection: close\r\n"
  \o "\r\n"

LastChunk == "0\r\n\r\n"

(***************************************************************************)
(* Chunking (doubao_api.cpp:47-59)                                         *)
(***************************************************************************)
\* variant: the loop test admits sent = totalLength
MoreToSend_Inclusive(done, totalLength) == done <= totalLength

\* line 50: sent < totalLength
MoreToSend(done, totalLength) == done < totalLength

\* line 51: min(chunkSize, totalLength - sent)
CurrentChunkSize(totalLength, done) == Min(chunkSize, totalLength - done)

\* variant: the second argument of substring taken for a length
Chunk_LengthAsEnd(p, done, currentChunkSize) == Substring(p, done, currentChunkSize)

\* line 52: payload.substring(sent, sent + currentChunkSize)
Chunk(p, done, currentChunkSize) == Substring(p, done, done + currentChunkSize)

\* variant: the size line printed without its line terminator
ChunkHeader_NoLineEnd(currentChunkSize) == Hex(currentChunkSize)

\* line 53: String(currentChunkSize, HEX) + "\r\n"
ChunkHeader(currentChunkSize) == Hex(currentChunkSize) \o CRLF

(***************************************************************************)
(* Body extraction (doubao_api.cpp:71-74)                                  *)
(***************************************************************************)
\* variant: every result of indexOf but 0 taken for a position
BoundaryFound_NotZero(jsonStart) == jsonStart # 0

\* line 72: the test on the result of indexOf
BoundaryFound(jsonStart) == jsonStart > 0

ExtractBody(resp) ==
  LET jsonStart == IndexOf(resp, CRLFCRLF)
  IN IF BoundaryFound(jsonStart) THEN SubstringFrom(resp, jsonStart + 4) ELSE resp

(***************************************************************************)
(* deserializeJson and jsonDoc["choices"][0]["message"]["content"]         *)
(* (doubao_api.cpp:75-78).  The JSON library is external: the documents    *)
(* the peer can send are the table JsonDocs, and the parser skips leading  *)
(* whitespace, reads one document and ignores what follows it.             *)
(***************************************************************************)
JsonDocs ==
  { [text |-> "{\"choices\":[{\"message\":{\"content\":\"hi\"}}]}", content |-> "hi"],
    [text |-> "{\"choices\":[{\"message\":{\"content\":\"<network_error>\"}}]}",
     content |-> "<network_error>"],
    [text |-> "{\"choices\":[{\"message\":{\"content\":\"<timeout_error>\"}}]}",
     content |-> "<timeout_error>"],
    \* a document without choices[0].message.content: as<String>() of a null
    \* variant is "null"
    [text |-> "{\"error\":{}}", content |-> "null"] }

IsJsonSpace(c) == c \in {" ", "\t", "\r", "\n"}

RECURSIVE SkipSpace(_)
SkipSpace(s) == IF s # "" /\ IsJsonSpace(CharAt(s, 0)) THEN SkipSpace(Tail(s)) ELSE s

StartsWith(s, prefix) == Len(s) >= Len(prefix) /\ SubSeq(s, 1, Len(prefix)) = prefix

\* the documents deserializeJson reads from s (none: a DeserializationError)
DocsOf(s) == {d \in JsonDocs : StartsWith(SkipSpace(s), d.text)}

DeserializationError(s) == DocsOf(s) = {}

ContentAsString(s) == (CHOOSE d \in DocsOf(s) : TRUE).content

(***************************************************************************)
(* Inputs.                                                                 *)
(***************************************************************************)
ApiKeys == {<<>>, <<"">>, <<"sk">>}
ModelIds == {"", "m"}
Temps == {Float(0 - 1), Float(0), Float(10), Float(11), NaN}

\* the configurations (apiKey, modelId, temp) a caller passes: the valid ones, and
\* those with one argument changed
Configs ==
  {<<k, "m", Float(10)>> : k \in ApiKeys}
  \cup {<<<<"sk">>, m, Float(0)>> : m \in ModelIds}
  \cup {<<<<"sk">>, "m", tp>> : tp \in Temps}
InputTexts == {"", "hi"}
ImageUrls == {"", "http://h/i.jpg"}
CameraImages == {"NULL", "", "QUJD"}   \* the results of K10tobase64
SystemPrompts == {"p"}

\* the texts given to buildPayload: a plain one, and one with the characters
\* that end a JSON string
BuildTexts ==
  {"hi",
   "x\"},{\"type\":\"image_url\",\"image_url\":{\"url\":\"u\"}},{\"type\":\"text\",\"text\":\"y"}
BuildImages == {"", "NULL", "QUJD"}
ImageFormats == {"", "jpg"}

\* a bool result, written as the caller prints it
BoolStr(b) == IF b THEN "true" ELSE "false"

\* a text without period: r(0) = "0", r(k) = r(k-1) digit(k) r(k-1)
RECURSIVE Ruler(_)
Ruler(k) == IF k = 0 THEN "0"
            ELSE LET r == Ruler(k - 1) IN r \o HexDigits[k + 1] \o r

PadText == Ruler(13)

PayloadOfLen(n) == SubSeq(PadText, 1, n)

PayloadLens ==
  {0, 1} \cup {k * chunkSize + d : k \in 1..MaxChunks, d \in {0 - 1, 0, 1}}

RetryPayloads == {PayloadOfLen(1)}

MaxRetriesValues == (0 - 1)..MaxRetriesBound

(***************************************************************************)
(* The responses of the peer, each a sequence of segments.  The peer may   *)
(* close the connection after any number of them.                          *)
(***************************************************************************)
StatusHead == "HTTP/1.1 200 OK\r\n\r\n"

ServerResponses ==
  { <<>> }
  \cup { <<StatusHead, d.text>> : d \in JsonDocs }
  \cup { <<StatusHead, "oops">>,
         <<CRLFCRLF, "{\"choices\":[{\"message\":{\"content\":\"hi\"}}]}">>,
         <<"{\"choices\":[{\"message\":{\"content\":\"hi\"}}]}">>,
         <<StatusHead, CRLFCRLF \o "{\"choices\":[{\"message\":{\"content\":\"hi\"}}]}">> }

\* the time one iteration of the read loop takes, in ms (at least delay(10))
PollAdvances == {ReadDeadlineMs \div 2, ReadDeadlineMs}

(***************************************************************************)
(* State after construction: no call in progress.                          *)
(***************************************************************************)
NoArgs == [inputText |-> "", imageUrl |-> "", apiKey |-> <<>>, modelId |-> "",
           systemPrompt |-> "", temp |-> Float(0), base64Image |-> "",
           imageFormat |-> ""]

Init ==
  /\ pc = "idle" /\ callee = "none" /\ args = NoArgs /\ answer = ""
  /\ payload = "" /\ apiKey = <<>> /\ maxRetries = 0 /\ i = 0 /\ result = ""
  /\ sent = 0 /\ wire = <<>> /\ sockets = 0 /\ peerOpen = FALSE /\ toSend = <<>>
  /\ avail = "" /\ response = "" /\ received = "" /\ waited = 0
  /\ outputText = "" /\ kind = "none" /\ parsed = <<>>
  /\ attempts = 0 /\ opened = 0 /\ slept = <<>> /\ captures = 0 /\ retval = <<>>
  /\ firstSuccess = 0

\* the locals of sendHttpRequest at its entry (lines 31-33)
EnterAttempt ==
  /\ sent' = 0 /\ wire' = <<>> /\ peerOpen' = FALSE /\ toSend' = <<>>
  /\ avail' = "" /\ response' = "" /\ received' = "" /\ waited' = 0
  /\ outputText' = ERROR_NETWORK /\ kind' = "none" /\ parsed' = <<>>

attemptVars == <<sent, wire, peerOpen, toSend, avail, response, received, waited,
                 outputText, kind, parsed>>

\* a caller invokes API function c with arguments a; the call is at position p
\* with payload pl, key k and retry budget m, or has returned rv
Begin(c, a, p, pl, k, m, caps, rv) ==
  /\ pc = "idle"
  /\ pc' = p /\ callee' = c /\ args' = a
  /\ payload' = pl /\ apiKey' = k /\ maxRetries' = m
  /\ i' = 0 /\ result' = ""
  /\ sent' = 0 /\ wire' = <<>> /\ peerOpen' = FALSE /\ toSend' = <<>>
  /\ avail' = "" /\ response' = "" /\ received' = "" /\ waited' = 0
  /\ outputText' = "" /\ kind' = "none" /\ parsed' = <<>>
  /\ attempts' = 0 /\ opened' = 0 /\ slept' = <<>>
  /\ captures' = caps /\ retval' = rv /\ firstSuccess' = 0
  /\ UNCHANGED <<answer, sockets>>

(***************************************************************************)
(* The entry points.                                                       *)
(***************************************************************************)
\* a direct call of sendHttpRequest(payload, apiKey)
Call_sendHttpRequest ==
  /\ pc = "idle"
  /\ \E n \in PayloadLens :
    Begin("sendHttpRequest", NoArgs, "call", PayloadOfLen(n), <<"sk">>, 0, 0, <<>>)

\* a direct call of sendHttpRequestWithRetry(payload, apiKey, maxRetries)
Call_sendHttpRequestWithRetry ==
  /\ pc = "idle"
  /\ \E pl \in RetryPayloads, m \in MaxRetriesValues :
    Begin("sendHttpRequestWithRetry", NoArgs, "loop", pl, <<"sk">>, m, 0, <<>>)

\* getGPTAnswer (doubao_api.cpp:132-143)
Call_getGPTAnswer ==
  /\ pc = "idle"
  /\ \E t \in InputTexts, c \in Configs, sp \in SystemPrompts :
    LET k == c[1]
        m == c[2]
        tp == c[3]
        a == [inputText |-> t, imageUrl |-> "", apiKey |-> k, modelId |-> m,
              systemPrompt |-> sp, temp |-> tp, base64Image |-> "",
              imageFormat |-> ""]
    IN IF ~validateConfig(k, m, tp)
       THEN Begin("getGPTAnswer", a, "done", "", k, 0, 0, <<ERROR_INVALID_INPUT>>)
       ELSE IF Len(t) = 0
       THEN Begin("getGPTAnswer", a, "done", "", k, 0, 0, <<ERROR_INVALID_INPUT>>)
       ELSE Begin("getGPTAnswer", a, "loop", buildPayload(t, m, sp, tp, "", ""),
                  k, DefaultMaxRetries, 0, <<>>)

\* getGPTAnswer_urlimg (doubao_api.cpp:145-169)
Call_getGPTAnswer_urlimg ==
  /\ pc = "idle"
  /\ \E t \in InputTexts, u \in ImageUrls, c \in Configs, sp \in SystemPrompts :
    LET k == c[1]
        m == c[2]
        tp == c[3]
        a == [inputText |-> t, imageUrl |-> u, apiKey |-> k, modelId |-> m,
              systemPrompt |-> sp, temp |-> tp, base64Image |-> "",
              imageFormat |-> ""]
    IN IF Len(t) = 0
       THEN Begin("getGPTAnswer_urlimg", a, "done", "", k, 0, 0, <<ERROR_INVALID_INPUT>>)
       ELSE Begin("getGPTAnswer_urlimg", a, "loop", urlimgPayload(t, u, m, sp, tp),
                  k, DefaultMaxRetries, 0, <<>>)

\* variant: only the "NULL" result of K10tobase64 taken for a failure
CaptureFailed_NullOnly(base64Image) == base64Image = "NULL"

\* line 177: base64Image == "NULL" || base64Image.length() == 0
CaptureFailed(base64Image) == base64Image = "NULL" \/ Len(base64Image) = 0

\* getGPTAnswer_camera (doubao_api.cpp:171-185)
Call_getGPTAnswer_camera ==
  /\ pc = "idle"
  /\ \E t \in InputTexts, c \in Configs, sp \in SystemPrompts,
        base64Image \in CameraImages :
    LET k == c[1]
        m == c[2]
        tp == c[3]
        a == [inputText |-> t, imageUrl |-> "", apiKey |-> k, modelId |-> m,
              systemPrompt |-> sp, temp |-> tp, base64Image |-> "",
              imageFormat |-> ""]
        \* line 176: the local base64Image holds the capture
        b == [a EXCEPT !.base64Image = base64Image]
    IN IF Len(t) = 0
       THEN Begin("getGPTAnswer_camera", a, "done", "", k, 0, 0, <<ERROR_INVALID_INPUT>>)
       ELSE IF CaptureFailed(base64Image)
       THEN Begin("getGPTAnswer_camera", b, "done", "", k, 0, 1, <<ERROR_CAMERA>>)
       ELSE Begin("getGPTAnswer_camera", [b EXCEPT !.imageFormat = "jpg"], "loop",
                  buildPayload(t, m, sp, tp, base64Image, "jpg"),
                  k, DefaultMaxRetries, 1, <<>>)

\* a direct call of buildPayload (doubao_api.cpp:109-130)
Call_buildPayload ==
  /\ pc = "idle"
  /\ \E t \in BuildTexts, base64Image \in BuildImages, f \in ImageFormats :
    LET a == [inputText |-> t, imageUrl |-> "", apiKey |-> <<>>, modelId |-> "m",
              systemPrompt |-> "p", temp |-> Float(5), base64Image |-> base64Image,
              imageFormat |-> f]
        pl == buildPayload(t, "m", "p", Float(5), base64Image, f)
    IN Begin("buildPayload", a, "done", pl, <<>>, 0, 0, <<pl>>)

\* a direct call of validateConfig (doubao_api.cpp:15-29)
Call_validateConfig ==
  /\ pc = "idle"
  /\ \E k \in ApiKeys, m \in ModelIds, tp \in Temps :
    LET a == [inputText |-> "", imageUrl |-> "", apiKey |-> k, modelId |-> m,
              systemPrompt |-> "", temp |-> tp, base64Image |-> "",
              imageFormat |-> ""]
    IN Begin("validateConfig", a, "done", "", k, 0, 0, <<BoolStr(validateConfig(k, m, tp))>>)

callVars == <<callee, args, answer, payload, apiKey, maxRetries, captures>>
retryVars == <<i, result, slept, firstSuccess>>

(***************************************************************************)
(* sendHttpRequest (doubao_api.cpp:31-90)                                  *)
(***************************************************************************)
\* lines 31-34: the function is entered, its locals are constructed
Enter ==
  /\ pc = "call"
  /\ pc' = "connect"
  /\ attempts' = attempts + 1
  /\ EnterAttempt
  /\ UNCHANGED <<callVars, retryVars, sockets, opened, retval>>

\* variant: the socket is left open
ClientStop_Leak(n) == n

\* client.stop(), and the destructor of the local client: the socket is closed
ClientStop(n) == 0

\* variant: the return of line 37 is missing
ConnectFailedPc_FallThrough == "head"

\* line 37: where control goes when client.connect failed
ConnectFailedPc == "return"

\* lines 35-38: client.connect fails (return ERROR_NETWORK) or succeeds
Connect ==
  /\ pc = "connect"
  /\ \/ /\ pc' = ConnectFailedPc
        /\ outputText' = ERROR_NETWORK /\ kind' = "NetworkFailure"
        /\ UNCHANGED <<sockets, opened, peerOpen, toSend>>
     \/ /\ pc' = "head"
        /\ sockets' = sockets + 1 /\ opened' = opened + 1
        /\ peerOpen' = TRUE
        /\ toSend' \in ServerResponses
        /\ UNCHANGED <<outputText, kind>>
  /\ UNCHANGED <<callVars, retryVars, sent, wire, avail, response, received, waited,
                 parsed, attempts, retval>>

\* lines 39-49: the request line and the headers are printed
WriteHead ==
  /\ pc = "head"
  /\ pc' = "chunk"
  /\ wire' = Append(wire, RequestHead(apiKey))
  /\ sent' = 0
  /\ UNCHANGED <<callVars, retryVars, sockets, peerOpen, toSend, avail, response,
                 received, waited, outputText, kind, parsed, attempts, opened, retval>>

\* lines 50-59: one iteration of the chunk loop, or its exit
WriteChunk ==
  /\ pc = "chunk"
  /\ LET totalLength == Len(payload) IN
     IF MoreToSend(sent, totalLength)
     THEN LET currentChunkSize == CurrentChunkSize(totalLength, sent)
              chunk == Chunk(payload, sent, currentChunkSize)
          IN /\ wire' = wire \o <<ChunkHeader(currentChunkSize), chunk, CRLF>>
             /\ sent' = sent + currentChunkSize
             /\ pc' = "chunk"
     ELSE /\ pc' = "last"
          /\ UNCHANGED <<wire, sent>>
  /\ UNCHANGED <<callVars, retryVars, sockets, peerOpen, toSend, avail, response,
                 received, waited, outputText, kind, parsed, attempts, opened, retval>>

\* lines 60-62: the terminating chunk is printed, the deadline is set
WriteLast ==
  /\ pc = "last"
  /\ pc' = "read"
  /\ wire' = Append(wire, LastChunk)
  /\ response' = ""
  /\ waited' = 0
  /\ UNCHANGED <<callVars, retryVars, sent, sockets, peerOpen, toSend, avail,
                 received, outputText, kind, parsed, attempts, opened, retval>>

\* client.connected(): the peer has not closed, or received bytes are unread
Connected == peerOpen \/ avail # ""

\* variant: the read loop without its deadline
BeforeDeadline_Unbounded(ms) == TRUE

\* millis() < timeout
BeforeDeadline(ms) == ms < ReadDeadlineMs

\* lines 63-68: one iteration of the read loop, or its exit
ReadPoll ==
  /\ pc = "read"
  /\ IF Connected /\ BeforeDeadline(waited)
     THEN /\ response' = response \o avail
          /\ avail' = ""
          /\ \E d \in PollAdvances : waited' = Min(waited + d, ReadDeadlineMs)
          /\ pc' = "read"
          /\ UNCHANGED received
     ELSE /\ pc' = "stop"
          /\ received' = response
          /\ UNCHANGED <<response, avail, waited>>
  /\ UNCHANGED <<callVars, retryVars, sent, wire, sockets, peerOpen, toSend,
                 outputText, kind, parsed, attempts, opened, retval>>

\* line 69: client.stop()
Stop ==
  /\ pc = "stop"
  /\ pc' = "parse"
  /\ sockets' = ClientStop(sockets)
  /\ peerOpen' = FALSE /\ avail' = "" /\ toSend' = <<>>
  /\ UNCHANGED <<callVars, retryVars, sent, wire, response, received, waited,
                 outputText, kind, parsed, attempts, opened, retval>>

\* lines 70-88: the body is extracted and parsed
Parse ==
  /\ pc = "parse"
  /\ pc' = "return"
  /\ IF Len(response) > 0
     THEN LET body == ExtractBody(response) IN
          /\ response' = body
          /\ parsed' = <<body>>
          /\ IF ~DeserializationError(body)
             THEN outputText' = ContentAsString(body) /\ kind' = "Success"
             ELSE outputText' = ERROR_JSON_PARSE /\ kind' = "ParseFailure"
     ELSE /\ outputText' = ERROR_TIMEOUT /\ kind' = "TimeoutFailure"
          /\ UNCHANGED <<response, parsed>>
  /\ UNCHANGED <<callVars, retryVars, sent, wire, sockets, peerOpen, toSend, avail,
                 received, waited, attempts, opened, retval>>

\* line 89 (and lines 37, 96): outputText is returned to the caller, the
\* local client is destroyed
Return ==
  /\ pc = "return"
  /\ sockets' = ClientStop(sockets)
  /\ IF callee = "sendHttpRequest"
     THEN pc' = "done" /\ retval' = <<outputText>> /\ UNCHANGED result
     ELSE pc' = "check" /\ result' = outputText /\ UNCHANGED retval
  /\ firstSuccess' = IF kind = "Success" /\ firstSuccess = 0 THEN attempts
                     ELSE firstSuccess
  /\ UNCHANGED <<callVars, i, slept, sent, wire, peerOpen, toSend, avail, response,
                 received, waited, outputText, kind, parsed, attempts, opened>>

(***************************************************************************)
(* The peer.  What it does before the read loop starts is seen by the      *)
(* program only in the read loop, so it acts there.                        *)
(***************************************************************************)
PeerSend ==
  /\ pc = "read" /\ peerOpen /\ toSend # <<>>
  /\ avail' = avail \o Head(toSend)
  /\ toSend' = Tail(toSend)
  /\ UNCHANGED <<pc, callVars, retryVars, sent, wire, sockets, peerOpen, response,
                 received, waited, outputText, kind, parsed, attempts, opened, retval>>

PeerClose ==
  /\ pc = "read" /\ peerOpen
  /\ peerOpen' = FALSE
  /\ toSend' = <<>>
  /\ UNCHANGED <<pc, callVars, retryVars, sent, wire, sockets, avail, response,
                 received, waited, outputText, kind, parsed, attempts, opened, retval>>

(***************************************************************************)
(* sendHttpRequestWithRetry (doubao_api.cpp:92-107)                        *)
(***************************************************************************)
\* variant: only a failed connection is retried
IsTransient_NetworkOnly(r) == r = ERROR_NETWORK

\* line 97: the result is retried
IsTransient(r) == ~(r # ERROR_NETWORK /\ r # ERROR_TIMEOUT)

\* variant: a delay follows the last attempt too
AttemptsRemain_OffByOne(idx, m) == idx < m

\* line 100: a delay follows attempt idx
AttemptsRemain(idx, m) == idx < m - 1

\* line 101: int delayTime = 1000 * (i + 1)
DelayTime(idx) == baseDelay * (idx + 1)

\* lines 94-96 and 106: the loop test; sendHttpRequest is called or result returned
RetryLoop ==
  /\ pc = "loop"
  /\ IF i < maxRetries
     THEN pc' = "call" /\ UNCHANGED retval
     ELSE pc' = "done" /\ retval' = <<result>>
  /\ UNCHANGED <<callVars, retryVars, attemptVars, sockets, attempts, opened>>

\* lines 97-104: the result of the attempt is returned, or the delay starts
RetryCheck ==
  /\ pc = "check"
  /\ IF ~IsTransient(result)
     THEN pc' = "done" /\ retval' = <<result>> /\ UNCHANGED <<i, slept>>
     ELSE IF AttemptsRemain(i, maxRetries)
     THEN pc' = "delay" /\ slept' = Append(slept, DelayTime(i)) /\ UNCHANGED <<i, retval>>
     ELSE pc' = "loop" /\ i' = i + 1 /\ UNCHANGED <<slept, retval>>
  /\ UNCHANGED <<callVars, result, firstSuccess, attemptVars, sockets, attempts, opened>>

\* lines 103-105 and 94: the delay ends, i++
Backoff ==
  /\ pc = "delay"
  /\ pc' = "loop"
  /\ i' = i + 1
  /\ UNCHANGED <<callVars, result, slept, firstSuccess, attemptVars, sockets, attempts,
                 opened, retval>>

\* the call has returned: the caller is free to make the next call
Finish ==
  /\ pc = "done"
  /\ pc' = "idle" /\ callee' = "none" /\ args' = NoArgs
  /\ payload' = "" /\ apiKey' = <<>> /\ maxRetries' = 0 /\ i' = 0 /\ result' = ""
  /\ sent' = 0 /\ wire' = <<>> /\ peerOpen' = FALSE /\ toSend' = <<>>
  /\ avail' = "" /\ response' = "" /\ received' = "" /\ waited' = 0
  /\ outputText' = "" /\ kind' = "none" /\ parsed' = <<>>
  /\ attempts' = 0 /\ opened' = 0 /\ slept' = <<>> /\ captures' = 0 /\ retval' = <<>>
  /\ firstSuccess' = 0
  /\ UNCHANGED <<answer, sockets>>

Next ==
  \/ Finish
  \/ Call_sendHttpRequest
  \/ Call_sendHttpRequestWithRetry
  \/ Call_getGPTAnswer
  \/ Call_getGPTAnswer_urlimg
  \/ Call_getGPTAnswer_camera
  \/ Call_buildPayload
  \/ Call_validateConfig
  \/ Enter
  \/ Connect
  \/ WriteHead
  \/ WriteChunk
  \/ WriteLast
  \/ ReadPoll
  \/ Stop
  \/ Parse
  \/ Return
  \/ PeerSend
  \/ PeerClose
  \/ RetryLoop
  \/ RetryCheck
  \/ Backoff

Spec == Init /\ [][Next]_vars

(***************************************************************************)
(* The steps of the calling thread.  The thread is never suspended for     *)
(* ever: delay() returns and every poll of the read loop takes time, so a  *)
(* step that is possible is eventually taken.  Nothing is assumed of the   *)
(* peer, which may send, close, or stay silent.                            *)
(***************************************************************************)
ProgramStep ==
  \/ Enter
  \/ Connect
  \/ WriteHead
  \/ WriteChunk
  \/ WriteLast
  \/ ReadPoll
  \/ Stop
  \/ Parse
  \/ Return
  \/ RetryLoop
  \/ RetryCheck
  \/ Backoff

\* the direct calls of the transport and of the retry wrapper
TransportNext ==
  \/ Finish
  \/ Call_sendHttpRequest
  \/ Call_sendHttpRequestWithRetry
  \/ ProgramStep
  \/ PeerSend
  \/ PeerClose

FairSpec == Init /\ [][TransportNext]_vars /\ WF_vars(ProgramStep)

(***************************************************************************)
(* Vocabulary of the properties.                                           *)
(***************************************************************************)
RetryCallees == {"sendHttpRequestWithRetry", "getGPTAnswer", "getGPTAnswer_urlimg",
                 "getGPTAnswer_camera"}
EntryPoints == {"getGPTAnswer", "getGPTAnswer_urlimg", "getGPTAnswer_camera"}

RECURSIVE SumSeq(_)
SumSeq(q) == IF q = <<>> THEN 0 ELSE Head(q) + SumSeq(Tail(q))

\* 1 + 2 + ... + n
Triangle(n) == (n * (n + 1)) \div 2

\* the attempt in progress has written its terminating chunk
LastWritten == pc \in {"read", "stop", "parse", "return"} /\ wire # <<>>

\* the data chunks written so far: wire is head, (size line, data, CRLF)*, last
NumChunks == IF wire = <<>> THEN 0 ELSE (Len(wire) - 1) \div 3
SizeLine(j) == wire[3 * j - 1]
DataChunk(j) == wire[3 * j]

RECURSIVE ConcatChunks(_)
ConcatChunks(n) == IF n = 0 THEN "" ELSE ConcatChunks(n - 1) \o DataChunk(n)

\* the number a receiver reads from a line of hexadecimal digits
HexDigitValue(c) == CHOOSE d \in 0..15 : HexDigits[d + 1] = c
RECURSIVE HexValue(_)
HexValue(h) == IF h = "" THEN 0
               ELSE 16 * HexValue(SubSeq(h, 1, Len(h) - 1))
                    + HexDigitValue(SubSeq(h, Len(h), Len(h)))

\* the size a size line announces
Announced(line) == HexValue(SubSeq(line, 1, Len(line) - 2))

(***************************************************************************)
(* C1.  For maxRetries >= 1 the retry wrapper invokes sendHttpRequest at   *)
(* most maxRetries times, and the first attempt whose outcome is Success   *)
(* or ParseFailure ends the call: no attempt and no backoff delay follows  *)
(* it, and its outcome is the value returned.                              *)
(***************************************************************************)
C1_FirstFinalOutcomeEndsCall ==
  (callee \in RetryCallees /\ maxRetries >= 1) =>
    /\ attempts <= maxRetries
    /\ kind \in {"Success", "ParseFailure"} =>
         /\ pc \notin {"delay", "call"}
         /\ pc = "loop" => i >= maxRetries
    /\ (kind \in {"Success", "ParseFailure"} /\ pc = "done") => retval = <<outputText>>

(***************************************************************************)
(* C2.  The delay slept after the transient failure of attempt index i,    *)
(* when attempts remain, is 1000 * (i + 1) ms; when the first k-1          *)
(* attempts fail transiently and attempt k succeeds, the success is        *)
(* returned and the total backoff of the call is 1000 * (1 + ... + (k-1)). *)
(***************************************************************************)
C2_BackoffSchedule ==
  (callee \in RetryCallees /\ maxRetries >= 1) =>
    /\ \A j \in 1..Len(slept) : slept[j] = 1000 * j
    /\ pc = "delay" => Len(slept) = i + 1
    /\ (pc = "done" /\ firstSuccess >= 1) =>
         /\ SumSeq(slept) = 1000 * Triangle(firstSuccess - 1)
         /\ attempts = firstSuccess
         /\ retval = <<outputText>>

(***************************************************************************)
(* C3.  When all maxRetries >= 1 attempts end in a transient failure, the  *)
(* value returned is the failure code of the last attempt, and no backoff  *)
(* delay follows the last attempt.                                         *)
(***************************************************************************)
C3_ExhaustedReturnsLastFailure ==
  (callee \in RetryCallees /\ maxRetries >= 1) =>
    /\ pc = "delay" => attempts < maxRetries
    /\ (pc = "done" /\ attempts = maxRetries /\ firstSuccess = 0
        /\ kind \in {"NetworkFailure", "TimeoutFailure"}) =>
         /\ retval = <<IF kind = "NetworkFailure" THEN ERROR_NETWORK ELSE ERROR_TIMEOUT>>
         /\ Len(slept) = maxRetries - 1

C3_Witness ==
  /\ callee \in RetryCallees /\ pc = "done" /\ maxRetries >= 2
  /\ attempts = maxRetries /\ firstSuccess = 0
  /\ kind = "TimeoutFailure" /\ retval = <<ERROR_TIMEOUT>>
  /\ opened >= 1 /\ opened < attempts

(***************************************************************************)
(* C4.  At most one socket is open, and the socket of an attempt is closed *)
(* on every exit path of sendHttpRequest: before the attempt returns,      *)
(* before the next attempt starts, before a backoff delay and before the   *)
(* call returns.                                                           *)
(***************************************************************************)
C4_SocketClosedBetweenAttempts ==
  /\ sockets <= 1
  /\ pc \in {"parse", "return", "check", "delay", "loop", "call", "done", "idle"}
       => sockets = 0

C4_Witness ==
  /\ callee \in RetryCallees /\ pc = "call" /\ attempts >= 1
  /\ opened = attempts /\ sockets = 0 /\ Len(slept) = attempts

(***************************************************************************)
(* C5.  For each entry point, a null or empty credential, an empty model   *)
(* id or a temperature outside [0.0, 1.0] makes the call return            *)
(* InvalidInput without any invocation of the transport.                   *)
(***************************************************************************)
InvalidConfig(a) ==
  \/ a.apiKey = <<>> \/ a.apiKey = <<"">>
  \/ a.modelId = ""
  \/ a.temp.nan \/ a.temp.tenths < 0 \/ a.temp.tenths > 10

C5_InvalidConfigRejected ==
  (callee \in EntryPoints /\ InvalidConfig(args)) =>
    /\ attempts = 0 /\ opened = 0
    /\ pc = "done" => retval = <<ERROR_INVALID_INPUT>>

(***************************************************************************)
(* C6.  On a connected socket the data chunks written are consecutive,     *)
(* non-overlapping substrings of the payload, in order; each size line     *)
(* announces the byte length of its chunk; once the terminating chunk is   *)
(* written the chunk lengths add up to the payload length.                 *)
(***************************************************************************)
C6_ChunksPartitionPayload ==
  wire # <<>> =>
    /\ ConcatChunks(NumChunks) = SubSeq(payload, 1, sent)
    /\ \A j \in 1..NumChunks :
         /\ Announced(SizeLine(j)) = Len(DataChunk(j))
         /\ SizeLine(j) = SubSeq(SizeLine(j), 1, Len(SizeLine(j)) - 2) \o CRLF
    /\ LastWritten => ConcatChunks(NumChunks) = payload

C6_Witness ==
  /\ pc = "read" /\ sockets = 1 /\ NumChunks >= 2
  /\ Len(payload) = chunkSize + 1
  /\ Len(DataChunk(1)) = chunkSize /\ Len(DataChunk(2)) = 1
  /\ DataChunk(1) \o DataChunk(2) = payload

(***************************************************************************)
(* C7.  A payload shorter than 4096 bytes is sent as exactly one data      *)
(* chunk; a payload whose length is a positive multiple of 4096 is sent    *)
(* as chunks of exactly 4096 bytes, the last of them followed directly by  *)
(* the terminating chunk.                                                  *)
(***************************************************************************)
\* the wire ends with the last data chunk, its CRLF and the terminating chunk
EndsWithLastChunk ==
  /\ Len(wire) = 3 * NumChunks + 2
  /\ wire[Len(wire)] = LastChunk
  /\ \A j \in 1..NumChunks : Len(DataChunk(j)) > 0

C7_OneChunkUnderChunkSize ==
  LastWritten =>
    /\ Len(payload) < 4096 => NumChunks = 1
    /\ (Len(payload) > 0 /\ Len(payload) % 4096 = 0) =>
         /\ \A j \in 1..NumChunks : Len(DataChunk(j)) = 4096
         /\ EndsWithLastChunk

\* C7 as amended: a payload of 1 to 4095 bytes is sent as exactly one data chunk
\* and an empty payload as none; no data chunk is ever empty; a payload whose
\* length is a positive multiple of 4096 is sent as chunks of exactly 4096 bytes,
\* the last of them followed directly by the terminating chunk
C7_OneChunkForShortNonEmpty ==
  /\ \A j \in 1..NumChunks : Len(DataChunk(j)) > 0
  /\ LastWritten =>
       /\ (Len(payload) >= 1 /\ Len(payload) < 4096) => NumChunks = 1 /\ EndsWithLastChunk
       /\ Len(payload) = 0 => NumChunks = 0 /\ wire = <<RequestHead(apiKey), LastChunk>>
       /\ (Len(payload) > 0 /\ Len(payload) % 4096 = 0) =>
            /\ NumChunks = Len(payload) \div 4096
            /\ \A j \in 1..NumChunks : Len(DataChunk(j)) = 4096
            /\ EndsWithLastChunk

C7_Witness ==
  /\ pc = "read" /\ Len(payload) = 2 * 4096 /\ NumChunks = 2
  /\ Len(DataChunk(2)) = 4096 /\ wire[Len(wire)] = LastChunk

(***************************************************************************)
(* C8.  When the connection attempt fails, the attempt returns             *)
(* NetworkFailure at once and writes nothing to the socket.                *)
(***************************************************************************)
C8_NoWriteWithoutConnection ==
  /\ kind = "NetworkFailure" =>
       /\ pc \notin {"head", "chunk", "last", "read", "stop", "parse"}
       /\ wire = <<>> /\ sent = 0 /\ received = ""
       /\ outputText = ERROR_NETWORK
  /\ wire # <<>> => opened >= 1
  /\ pc \in {"head", "chunk", "last", "read", "stop"} => sockets = 1

C8_Witness ==
  /\ pc = "return" /\ kind = "NetworkFailure" /\ wire = <<>>
  /\ sockets = 0 /\ attempts = 2 /\ opened = 1

(***************************************************************************)
(* C9.  An attempt returns NetworkFailure when the peer dropped the        *)
(* connection before the response was complete, and TimeoutFailure only    *)
(* when the connection stayed open and no data arrived within the          *)
(* deadline: a connection closed by the peer with zero response bytes is   *)
(* a NetworkFailure.                                                       *)
(***************************************************************************)
C9_PeerCloseIsNetworkFailure ==
  pc = "return" =>
    /\ kind = "TimeoutFailure" => (received = "" /\ waited >= ReadDeadlineMs)
    /\ (wire # <<>> /\ received = "" /\ waited < ReadDeadlineMs)
         => kind = "NetworkFailure"

(***************************************************************************)
(* C10.  When the response is non-empty and contains CRLFCRLF, the body    *)
(* given to the JSON parser is the bytes after the first CRLFCRLF, also    *)
(* when the response begins with it.                                       *)
(***************************************************************************)
ContainsBoundary(r) ==
  \E k \in 1..(Len(r) - 3) : SubSeq(r, k, k + 3) = CRLFCRLF

AfterFirstBoundary(r) ==
  LET k == CHOOSE n \in 1..(Len(r) - 3) :
             /\ SubSeq(r, n, n + 3) = CRLFCRLF
             /\ \A m \in 1..(n - 1) : SubSeq(r, m, m + 3) # CRLFCRLF
  IN SubSeq(r, k + 4, Len(r))

C10_BodyAfterFirstBoundary ==
  (pc = "return" /\ received # "" /\ ContainsBoundary(received)) =>
    parsed = <<AfterFirstBoundary(received)>>

(***************************************************************************)
(* C11.  When the response is non-empty and contains no CRLFCRLF, the      *)
(* whole response, unchanged, is the body given to the JSON parser: the    *)
(* attempt ends as a Success or a ParseFailure decided by the parser, not  *)
(* by the missing boundary.                                                *)
(***************************************************************************)
C11_NoBoundaryWholeResponse ==
  (pc = "return" /\ received # "" /\ ~ContainsBoundary(received)) =>
    /\ parsed = <<received>>
    /\ kind = (IF DeserializationError(received) THEN "ParseFailure" ELSE "Success")

C11_Witness ==
  /\ pc = "return" /\ received # "" /\ ~ContainsBoundary(received)
  /\ parsed = <<received>> /\ kind = "Success" /\ outputText = "hi"

\* the body starts with a JSON document that has a text at
\* choices[0].message.content
HasExpectedShape(body) ==
  \E d \in DocsOf(body) :
    StartsWith(d.text, "{\"choices\":[{\"message\":{\"content\":\"")

(***************************************************************************)
(* C12.  An attempt whose response body is not valid JSON, or is valid     *)
(* JSON without a text at choices[0].message.content, ends as a            *)
(* ParseFailure with the JSON parse error; it ends as a Success only when  *)
(* the body parses and choices[0].message.content is present.              *)
(***************************************************************************)
C12_SuccessOnlyWithContent ==
  (pc = "return" /\ parsed # <<>>) =>
    IF HasExpectedShape(parsed[1])
    THEN kind = "Success"
    ELSE kind = "ParseFailure" /\ outputText = ERROR_JSON_PARSE

(***************************************************************************)
(* C13.  The global answer stores the last AI response: when a call of an  *)
(* entry point returns the text of a response, answer holds that text.     *)
(***************************************************************************)
C13_AnswerHoldsLastResponse ==
  (pc = "done" /\ callee \in EntryPoints /\ kind = "Success" /\ retval = <<outputText>>) =>
    answer = outputText

Contains(s, pat) == IndexOf(s, pat) >= 0

\* the functions that build a request payload
PayloadBuilders == {"buildPayload"} \cup EntryPoints

\* the caller supplied an image: a URL to getGPTAnswer_urlimg, base64 data
\* other than "" and "NULL" to buildPayload
ImageSupplied ==
  IF callee = "getGPTAnswer_urlimg" THEN args.imageUrl # ""
  ELSE args.base64Image \notin {"", "NULL"}

(***************************************************************************)
(* C14.  A text-only request never includes an image content entry: for    *)
(* every input, the payload built by buildPayload or by                    *)
(* getGPTAnswer_urlimg contains the text, and contains an image_url entry  *)
(* exactly when a non-empty image is supplied.                             *)
(***************************************************************************)
C14_ImageEntryIffImageSupplied ==
  (callee \in PayloadBuilders /\ payload # "") =>
    /\ Contains(payload, "\"" \o args.inputText \o "\"")
    /\ Contains(payload, "{\"type\":\"image_url\",") <=> ImageSupplied

\* 0.0 <= t <= 1.0, which no NaN satisfies
InUnitInterval(t) == ~t.nan /\ 0 <= t.tenths /\ t.tenths <= 10

(***************************************************************************)
(* C15.  validateConfig(apiKey, modelId, temp) returns true if and only if *)
(* apiKey is neither null nor empty, modelId is not empty and              *)
(* 0.0 <= temp <= 1.0.                                                     *)
(***************************************************************************)
C15_ValidateConfigIffValid ==
  (pc = "done" /\ callee = "validateConfig") =>
    (retval = <<"true">>) <=>
      /\ args.apiKey # <<>> /\ args.apiKey # <<"">>
      /\ args.modelId # ""
      /\ InUnitInterval(args.temp)

\* a line of hexadecimal digits ended by CR LF
IsSizeLine(line) ==
  /\ Len(line) >= 3
  /\ SubSeq(line, Len(line) - 1, Len(line)) = "\r\n"
  /\ \A k \in 1..(Len(line) - 2) :
       \E d \in 1..16 : HexDigits[d] = SubSeq(line, k, k)

(***************************************************************************)
(* C16.  On a connected socket sendHttpRequest writes, in this order: the  *)
(* request line and headers once; for each chunk its hexadecimal size      *)
(* line, its bytes and a line terminator; then the terminating zero-length *)
(* chunk once, after the final data chunk.  No response byte is read       *)
(* before the terminating chunk is written and nothing is written after    *)
(* it.                                                                     *)
(***************************************************************************)
C16_WriteOrder ==
  /\ wire # <<>> =>
       /\ wire[1] = RequestHead(apiKey)
       /\ \A k \in 2..Len(wire) : wire[k] # RequestHead(apiKey)
       /\ \A j \in 1..NumChunks :
            /\ IsSizeLine(SizeLine(j))
            /\ Announced(SizeLine(j)) = Len(DataChunk(j))
            /\ wire[3 * j + 1] = "\r\n"
       /\ \A k \in 1..(Len(wire) - 1) : wire[k] # "0\r\n\r\n"
       /\ IF pc \in {"chunk", "last"}
          THEN /\ Len(wire) = 3 * NumChunks + 1
               /\ response = "" /\ received = ""
          ELSE /\ Len(wire) = 3 * NumChunks + 2
               /\ wire[Len(wire)] = "0\r\n\r\n"
               /\ ConcatChunks(NumChunks) = payload
  /\ pc \in {"connect", "head"} => wire = <<>> /\ response = "" /\ received = ""
  /\ (response # "" \/ received # "") =>
       wire # <<>> /\ wire[Len(wire)] = "0\r\n\r\n"

C16_Witness ==
  /\ pc = "read" /\ NumChunks = 2 /\ response # ""
  /\ wire = <<RequestHead(apiKey), "1000\r\n", DataChunk(1), "\r\n",
              "1\r\n", DataChunk(2), "\r\n", "0\r\n\r\n">>

\* a call is in progress
InCall == pc \notin {"idle", "done"}

(***************************************************************************)
(* C17.  Every call of sendHttpRequestWithRetry eventually returns, for    *)
(* every maxRetries and every behaviour of the network, given that the     *)
(* clock advances: the chunk loop ends, the read loop of each attempt ends *)
(* when the connection closes or the 300-second deadline elapses, and the  *)
(* number of attempts is bounded by maxRetries.  The same holds of a       *)
(* direct call of sendHttpRequest.                                         *)
(***************************************************************************)
C17_RetryCallReturns ==
  InCall ~> (pc = "done")

C17_Witness ==
  /\ pc = "done" /\ callee = "sendHttpRequestWithRetry"
  /\ maxRetries >= 2 /\ attempts = maxRetries
  /\ kind = "TimeoutFailure" /\ waited = ReadDeadlineMs

(***************************************************************************)
(* C18.  When the read loop of sendHttpRequest ends with zero bytes read,  *)
(* because the connection closed or because the deadline elapsed, the      *)
(* attempt returns TimeoutFailure; the retry wrapper retries it while      *)
(* attempts remain, so a call ends on a TimeoutFailure only with its last  *)
(* attempt.                                                                *)
(***************************************************************************)
C18_ZeroBytesIsTimeoutAndRetried ==
  /\ (pc = "return" /\ wire # <<>> /\ received = "") =>
       kind = "TimeoutFailure" /\ outputText = ERROR_TIMEOUT
  /\ (callee \in RetryCallees /\ pc = "check" /\ kind = "TimeoutFailure") =>
       result = ERROR_TIMEOUT
  /\ (callee \in RetryCallees /\ pc = "done" /\ kind = "TimeoutFailure") =>
       attempts = maxRetries /\ retval = <<ERROR_TIMEOUT>>

C18_Witness ==
  /\ callee \in RetryCallees /\ pc = "call" /\ attempts = 1 /\ i = 1
  /\ kind = "TimeoutFailure" /\ received = "" /\ waited < ReadDeadlineMs
  /\ wire # <<>> /\ slept = <<DelayTime(0)>>

(***************************************************************************)
(* C19.  An empty payload never reaches the transport: a call of           *)
(* getGPTAnswer, getGPTAnswer_urlimg or getGPTAnswer_camera with an empty  *)
(* input text returns InvalidInput without a transport attempt and, for    *)
(* the camera, without a capture; a failed capture returns the camera      *)
(* error without a transport attempt.                                      *)
(***************************************************************************)
C19_EmptyTextNeverReachesTransport ==
  /\ (callee \in EntryPoints /\ args.inputText = "") =>
       /\ pc = "done" /\ retval = <<ERROR_INVALID_INPUT>>
       /\ attempts = 0 /\ opened = 0 /\ wire = <<>> /\ captures = 0
  /\ (callee = "getGPTAnswer_camera" /\ args.inputText # ""
        /\ args.base64Image \in {"NULL", ""}) =>
       /\ pc = "done" /\ retval = <<ERROR_CAMERA>>
       /\ attempts = 0 /\ opened = 0 /\ wire = <<>> /\ captures = 1
  /\ (callee \in EntryPoints /\ attempts > 0) =>
       payload # "" /\ args.inputText # ""

C19_Witness ==
  /\ pc = "done" /\ callee = "getGPTAnswer_camera" /\ args.inputText = ""
  /\ retval = <<ERROR_INVALID_INPUT>> /\ captures = 0 /\ attempts = 0
  /\ validateConfig(args.apiKey, args.modelId, args.temp)

(***************************************************************************)
(* C20.  For every integer maxRetries, 0 and the negative ones included,   *)
(* the value sendHttpRequestWithRetry returns is the outcome of a          *)
(* transport attempt made during the call.                                 *)
(***************************************************************************)
C20_ReturnedValueIsAnAttemptOutcome ==
  (pc = "done" /\ callee = "sendHttpRequestWithRetry") =>
    attempts >= 1 /\ retval = <<outputText>>

\* the last attempt of the call is followed by a backoff delay or by another
\* attempt
AttemptIsRetried ==
  /\ callee \in RetryCallees /\ attempts >= 1
  /\ \/ pc \in {"delay", "call"}
     \/ pc = "loop" /\ i < maxRetries

(***************************************************************************)
(* C21.  sendHttpRequestWithRetry retries an attempt only when the attempt *)
(* failed to connect or read zero bytes: an attempt that received a        *)
(* response and parsed it is never followed by another attempt or by a     *)
(* backoff delay, whatever the text of the extracted content, the text of  *)
(* a failure code included.                                                *)
(***************************************************************************)
C21_OnlyTransientFailuresRetried ==
  AttemptIsRetried =>
    /\ kind \in {"NetworkFailure", "TimeoutFailure"}
    /\ kind = "NetworkFailure" => wire = <<>>
    /\ kind = "TimeoutFailure" => received = ""

====
